---------------------------- MODULE Spec2Model ----------------------------
(***************************************************************************)
(* A model of cl_sampler.py: the index bookkeeping of the realified alm    *)
(* vector, the power-spectrum step, the covariance update and the Gibbs    *)
(* loop of the main block.                                                 *)
(*                                                                         *)
(* Python lists and numpy vectors are sequences; slot k (0-based, as in    *)
(* the source) of a vector v is v[k+1], written At(v, k).  Real numbers    *)
(* are exact rationals <<n, d>> in lowest terms with d >= 0; d = 0 holds   *)
(* the IEEE values numpy produces on division by zero: <<1,0>> is inf,     *)
(* <<-1,0>> is -inf and <<0,0>> is nan.                                    *)
(***************************************************************************)
EXTENDS Integers, Sequences, FiniteSets, TLC

VARIABLES
    \* ---- chain inputs (command line and precomputed artefacts) ----
    jobid,            \* ARGS['jobid']
    n_samples,        \* ARGS['number_of_samples']
    lmax,             \* ARGS['lmax']
    prior_cov,        \* diagonal of the prior covariance
    inv_prior_cov,    \* 1/prior_cov, computed once before the chain
    a_0,              \* prior mean
    vis_response,     \* visibility response operator [real, imag]
    inv_noise_cov,    \* noise precision
    data_vec,         \* data vector [real, imag]
    real_op, imag_op, \* the Gram blocks of get_lhs_operators
    \* ---- chain state (module-level names of the main block) ----
    pc,               \* position of the main block
    sample_no,        \* loop variable of the Gibbs loop
    inv_signal_cov,   \* global read by lhs_operator
    initial_guess,    \* warm start of the next solve
    wf_soln,          \* Wiener-filter solution
    x_soln,           \* last coefficient draw
    cl_samples,       \* last power-spectrum draw
    signal_cov,       \* last signal covariance
    np_random,        \* state of numpy's global generator
    hdf5,             \* the sample groups written so far
    status,           \* batch number of the open hdf5 file
    cg_calls,         \* the solver as a function: inputs seen -> output
    log,              \* the steps completed so far, in order
    solves,           \* the solver calls made so far, in order
    run_no,           \* which run of the program this is
    first_run,        \* the groups an earlier identical run wrote
    \* ---- index-function harness ----
    q_lmax, q_em, q_ell, q_out,
    \* ---- one call of a function of the module on its own ----
    fn_name,          \* which call was made
    fn_in,            \* its arguments
    fn_out            \* what it returned or raised

inputVars == <<jobid, n_samples, lmax, inv_prior_cov, a_0, vis_response,
               inv_noise_cov, data_vec, real_op, imag_op>>
stateVars == <<prior_cov, pc, sample_no, inv_signal_cov, initial_guess, wf_soln,
               x_soln, cl_samples, signal_cov, np_random, hdf5, status, log,
               solves>>
chainVars == <<inputVars, stateVars, cg_calls, run_no, first_run>>
idxVars == <<q_lmax, q_em, q_ell, q_out>>
callVars == <<fn_name, fn_in, fn_out>>
vars == <<chainVars, idxVars, callVars>>

---------------------------------------------------------------------------
(* Bounds of the model.                                                    *)
MaxJob == 1
MaxSamples == 3
MaxLmaxChain == 1
MaxLmax == 4

---------------------------------------------------------------------------
(* Rational arithmetic.                                                    *)

Abs(i) == IF i < 0 THEN 0 - i ELSE i
Sign(i) == IF i < 0 THEN 0 - 1 ELSE IF i = 0 THEN 0 ELSE 1

RECURSIVE Gcd(_, _)
Gcd(a, b) == IF b = 0 THEN a ELSE Gcd(b, a % b)

Norm(n, d) ==
    IF d = 0 THEN <<Sign(n), 0>>
    ELSE LET g == Gcd(Abs(n), Abs(d))
             s == IF d < 0 THEN 0 - 1 ELSE 1
         IN  <<s * (n \div g), s * (d \div g)>>

R(i) == <<i, 1>>
Inf == <<1, 0>>
NaN == <<0, 0>>
IsNaN(x) == x = NaN
IsFinite(x) == x[2] > 0

RMul(x, y) == Norm(x[1] * y[1], x[2] * y[2])
RAdd(x, y) ==
    IF IsNaN(x) \/ IsNaN(y) THEN NaN
    ELSE IF x[2] = 0 /\ y[2] = 0 THEN (IF x = y THEN x ELSE NaN)
    ELSE Norm(x[1] * y[2] + y[1] * x[2], x[2] * y[2])
RNeg(x) == <<0 - x[1], x[2]>>
\* x / y as numpy divides floats: a finite non-zero x over 0 is +-inf, 0/0 is nan
RDiv(x, y) ==
    IF IsNaN(x) \/ IsNaN(y) THEN NaN
    ELSE IF x[2] = 0 /\ y[2] = 0 THEN NaN
    ELSE Norm(x[1] * y[2], x[2] * y[1])
RLess(x, y) ==
    /\ ~IsNaN(x) /\ ~IsNaN(y)
    /\ IF x[2] = 0 \/ y[2] = 0
       THEN (x = RNeg(Inf) /\ y # RNeg(Inf)) \/ (y = Inf /\ x # Inf)
       ELSE x[1] * y[2] < y[1] * x[2]

RECURSIVE ISqrtFrom(_, _)
ISqrtFrom(n, r) == IF (r + 1) * (r + 1) > n THEN r ELSE ISqrtFrom(n, r + 1)
ISqrt(n) == ISqrtFrom(n, 0)
\* np.sqrt: exact on squares of rationals, otherwise rounded (down, to a
\* multiple of 1/(4d)) as a floating-point square root rounds
RSqrt(x) ==
    IF IsNaN(x) \/ x[1] < 0 THEN NaN
    ELSE IF x[2] = 0 THEN Inf
    ELSE Norm(ISqrt(16 * x[1] * x[2]), 4 * x[2])

At(v, k) == v[k + 1]
Put(v, k, x) == [v EXCEPT ![k + 1] = x]

---------------------------------------------------------------------------
(* Coefficient indexing: get_em_ell_idx, find_common_true_index,           *)
(* get_idx_ml.                                                             *)

\* Python's empty list [], which find_common_true_index returns for a part
\* it did not find
NoIndex == -1

\* The passes with the loops the other way round, "for ell in 0..lmax: for
\* em in first_em..lmax"
LoopPairs_degree_major(first_em, lmx) ==
    [k \in 1..((lmx + 1 - first_em) * (lmx + 1)) |->
        <<first_em + ((k - 1) % (lmx + 1 - first_em)), (k - 1) \div (lmx + 1 - first_em)>>]

\* The passes of "for em in first_em..lmax: for ell in 0..lmax", in order
LoopPairs(first_em, lmx) ==
    [k \in 1..((lmx + 1 - first_em) * (lmx + 1)) |->
        <<first_em + ((k - 1) \div (lmx + 1)), (k - 1) % (lmx + 1)>>]

\* The (em, ell) one of the two double loops appends: "if ell >= em"
ModeLoop(first_em, lmx) == SelectSeq(LoopPairs(first_em, lmx), LAMBDA p : p[2] >= p[1])

get_em_ell_idx(lmx) ==
    LET modes == ModeLoop(0, lmx) \o ModeLoop(1, lmx)
    IN  [ems  |-> [k \in 1..Len(modes) |-> modes[k][1]],
         ells |-> [k \in 1..Len(modes) |-> modes[k][2]],
         idx  |-> [k \in 1..Len(modes) |-> k - 1]]

\* the split taken as the number of imaginary parts
real_imag_split_index_imag(lmx) == ((lmx + 1) * (lmx + 1) - (lmx + 1)) \div 2

real_imag_split_index(lmx) == ((lmx + 1) * (lmx + 1) + (lmx + 1)) \div 2

\* What the loop of find_common_true_index leaves in a variable it assigns
\* at every slot of hits in increasing order: the last one, or [] if none
LastAssigned(hits) ==
    IF hits = {} THEN NoIndex ELSE CHOOSE i \in hits : \A j \in hits : j <= i

find_common_true_index(arr_em, arr_ell, lmx) ==
    LET both == {i \in 0..(Len(arr_em) - 1) : At(arr_em, i) /\ At(arr_ell, i)}
    IN  [real |-> LastAssigned({i \in both : i < real_imag_split_index(lmx)}),
         imag |-> LastAssigned({i \in both : i >= real_imag_split_index(lmx)})]

\* the assertions with an index that was not found skipped, as for a
\* default index that is a valid position of the lists
CheckIndexFound(common_idx, em, ell, lists) ==
    IF common_idx = NoIndex THEN "none"
    ELSE IF /\ common_idx = At(lists.idx, common_idx)
            /\ em = At(lists.ems, common_idx)
            /\ ell = At(lists.ells, common_idx)
         THEN "none"
         ELSE "AssertionError"

\* The three assertions of get_idx_ml on one returned index; indexing a list
\* with [] is a TypeError
CheckIndex(common_idx, em, ell, lists) ==
    IF common_idx = NoIndex THEN "TypeError"
    ELSE IF /\ common_idx = At(lists.idx, common_idx)
            /\ em = At(lists.ems, common_idx)
            /\ ell = At(lists.ells, common_idx)
         THEN "none"
         ELSE "AssertionError"

\* [err, real, imag]: err is "none" when the call returns <<real, imag>>,
\* and the exception raised otherwise
get_idx_ml(em, ell, lmx) ==
    IF ~(em <= ell) THEN [err |-> "AssertionError", real |-> NoIndex, imag |-> NoIndex]
    ELSE
    LET lists == get_em_ell_idx(lmx)
        em_check == [k \in 1..Len(lists.ems) |-> lists.ems[k] = em]
        ell_check == [k \in 1..Len(lists.ells) |-> lists.ells[k] = ell]
        common == find_common_true_index(em_check, ell_check, lmx)
        e_real == CheckIndex(common.real, em, ell, lists)
        e_imag == IF common.imag = NoIndex THEN "none"
                  ELSE CheckIndex(common.imag, em, ell, lists)
        err == IF e_real # "none" THEN e_real ELSE e_imag
    IN  IF err # "none" THEN [err |-> err, real |-> NoIndex, imag |-> NoIndex]
        ELSE [err |-> "none", real |-> common.real, imag |-> common.imag]

---------------------------------------------------------------------------
(* numpy vector and matrix operations on sequences of rationals.  A matrix *)
(* is the sequence of its rows; a complex vector or matrix is a record     *)
(* [real, imag].                                                           *)

RECURSIVE RSum(_)
RSum(v) == IF v = <<>> THEN R(0) ELSE RAdd(v[1], RSum(Tail(v)))

VAdd(u, v) == [k \in 1..Len(u) |-> RAdd(u[k], v[k])]
VMul(u, v) == [k \in 1..Len(u) |-> RMul(u[k], v[k])]
VSqrt(u) == [k \in 1..Len(u) |-> RSqrt(u[k])]
VRecip(u) == [k \in 1..Len(u) |-> RDiv(R(1), u[k])]
VFinite(u) == \A k \in 1..Len(u) : IsFinite(u[k])
Dot(u, v) == RSum(VMul(u, v))
\* M @ v
MatVec(M, v) == [r \in 1..Len(M) |-> Dot(M[r], v)]
\* M.T @ v, for M with ncols columns
MatTVec(M, ncols, v) == [c \in 1..ncols |-> RSum([r \in 1..Len(M) |-> RMul(M[r][c], v[r])])]
Zeros(n) == [k \in 1..n |-> R(0)]
Ones(n) == [k \in 1..n |-> R(1)]
Nalms(lmx) == (lmx + 1) * (lmx + 1)

---------------------------------------------------------------------------
(* Conversion between the realified vector and the healpy layout.  A       *)
(* complex array is a record [real, imag] of its parts.                    *)

\* hp.sphtfunc.Alm.getlmax(s): the lmax with (lmax+1)(lmax+2)/2 = s, or -1
getlmax(s) ==
    IF \E l \in 0..s : (l + 1) * (l + 2) = 2 * s
    THEN CHOOSE l \in 0..s : (l + 1) * (l + 2) = 2 * s
    ELSE 0 - 1

\* alms[i:] and alms[:i] for 0 <= i
Drop(v, i) == SubSeq(v, (IF i < Len(v) THEN i ELSE Len(v)) + 1, Len(v))
Take(v, i) == SubSeq(v, 1, IF i < Len(v) THEN i ELSE Len(v))

\* the product z * y of the complex scalar z = [re, im] and the float y
\* (cast to y + 0j), and the sum x + w of the float x and the complex w
CMulFloat(z, y) ==
    [re |-> RAdd(RMul(z.re, y), RNeg(RMul(z.im, R(0)))),
     im |-> RAdd(RMul(z.re, R(0)), RMul(z.im, y))]
FloatAddC(x, w) == [re |-> RAdd(x, w.re), im |-> RAdd(R(0), w.im)]

\* alms2healpy splitting the vector in the middle
alms2healpy_halved(alms, lmx) ==
    LET real_imag_split == Len(alms) \div 2
        real == Take(alms, real_imag_split)
        add_imag_m0_modes == Zeros(lmx + 1)
        imag == add_imag_m0_modes \o Drop(alms, real_imag_split)
        modes == [k \in 1..Len(real) |->
                    FloatAddC(real[k], CMulFloat([re |-> R(0), im |-> R(1)], imag[k]))]
    IN  IF Len(real) # Len(imag)
        THEN [err |-> "ValueError", real |-> <<>>, imag |-> <<>>]
        ELSE [err |-> "none",
              real |-> [k \in 1..Len(real) |-> modes[k].re],
              imag |-> [k \in 1..Len(real) |-> modes[k].im]]

\* [err, real, imag]: arrays of different lengths cannot be added
alms2healpy(alms, lmx) ==
    LET real_imag_split == (Len(alms) + (lmx + 1)) \div 2
        real == Take(alms, real_imag_split)
        add_imag_m0_modes == Zeros(lmx + 1)
        imag == add_imag_m0_modes \o Drop(alms, real_imag_split)
        modes == [k \in 1..Len(real) |->
                    FloatAddC(real[k], CMulFloat([re |-> R(0), im |-> R(1)], imag[k]))]
    IN  IF Len(real) # Len(imag)
        THEN [err |-> "ValueError", real |-> <<>>, imag |-> <<>>]
        ELSE [err |-> "none",
              real |-> [k \in 1..Len(real) |-> modes[k].re],
              imag |-> [k \in 1..Len(real) |-> modes[k].im]]

\* healpy2alms keeping the whole imaginary part
healpy2alms_all(healpy_modes) == healpy_modes.real \o healpy_modes.imag

healpy2alms(healpy_modes) ==
    LET lmx == getlmax(Len(healpy_modes.real))
    IN  healpy_modes.real \o Drop(healpy_modes.imag, lmx + 1)

---------------------------------------------------------------------------
(* The radiometer equation.  auto_visibilities is a complex array [real,   *)
(* imag]; ants is the list of antenna numbers.                             *)

\* v[a:b] of a complex array, for 0 <= a <= b
CSlice(v, a, b) == [real |-> Drop(Take(v.real, b), a), imag |-> Drop(Take(v.imag, b), a)]

\* the pairs (i, j) of "for i in ants: for j in ants", in order
AntennaPairs(ants) ==
    [k \in 1..(Len(ants) * Len(ants)) |->
        <<ants[((k - 1) \div Len(ants)) + 1], ants[((k - 1) % Len(ants)) + 1]>>]

\* the test with the autocorrelations kept whatever include_autos is
BaselineKeptWithAutos(i, j, include_autos) == j >= i

\* the two tests under "if include_autos == True: ... else: ..."
BaselineKept(i, j, include_autos) == IF include_autos THEN j >= i ELSE j > i

\* sigma_ij = (vis_ii * vis_jj) / (Nnights * delta_time * delta_freq)
sigma_ij(vis_ii, vis_jj, denom) ==
    [real |-> [k \in 1..Len(vis_ii.real) |->
                 RDiv(RAdd(RMul(vis_ii.real[k], vis_jj.real[k]),
                           RNeg(RMul(vis_ii.imag[k], vis_jj.imag[k]))), denom)],
     imag |-> [k \in 1..Len(vis_ii.real) |->
                 RDiv(RAdd(RMul(vis_ii.real[k], vis_jj.imag[k]),
                           RMul(vis_ii.imag[k], vis_jj.real[k])), denom)]]

\* np.concatenate over the blocks of the pairs from position p on
RECURSIVE SigmaFull(_, _, _, _, _, _)
SigmaFull(vis, pairs, p, indx, denom, include_autos) ==
    IF p > Len(pairs) THEN [real |-> <<>>, imag |-> <<>>]
    ELSE LET i == pairs[p][1]
             j == pairs[p][2]
             rest == SigmaFull(vis, pairs, p + 1, indx, denom, include_autos)
         IN  IF BaselineKept(i, j, include_autos)
             THEN LET blk == sigma_ij(CSlice(vis, i * indx, (i + 1) * indx),
                                      CSlice(vis, j * indx, (j + 1) * indx), denom)
                  IN  [real |-> blk.real \o rest.real, imag |-> blk.imag \o rest.imag]
             ELSE rest

\* np.any in the place of np.all
ImagIsZeroSomewhere(sigma_full) == \E k \in 1..Len(sigma_full.imag) : sigma_full.imag[k] = R(0)

\* np.all(sigma_full.imag == 0)
ImagIsZero(sigma_full) == \A k \in 1..Len(sigma_full.imag) : sigma_full.imag[k] = R(0)

\* [err, sigma]: err is "none" when sigma is returned
radiometer_eq(auto_visibilities, ants, delta_time, delta_freq, Nnights, include_autos) ==
    LET nbls == Len(ants)
        indx == Len(auto_visibilities.real) \div nbls
        denom == RMul(RMul(R(Nnights), delta_time), delta_freq)
        sigma_full == SigmaFull(auto_visibilities, AntennaPairs(ants), 1, indx, denom,
                                include_autos)
    IN  IF ImagIsZero(sigma_full)
        THEN [err |-> "none", sigma |-> sigma_full.real]
        ELSE [err |-> "AssertionError", sigma |-> <<>>]

---------------------------------------------------------------------------
(* The GCR linear system.                                                  *)

\* construct_rhs_no_rot weighting omega_0 by the precision itself
construct_rhs_no_rot_plain(data, inv_noise, inv_signal, omega_0, omega_1, a0, vis) ==
    LET n == Len(a0)
        real_data_term == MatTVec(vis.real, n,
            VAdd(VMul(inv_noise, data.real), VMul(VSqrt(inv_noise), omega_1.real)))
        imag_data_term == MatTVec(vis.imag, n,
            VAdd(VMul(inv_noise, data.imag), VMul(VSqrt(inv_noise), omega_1.imag)))
        prior_term == VAdd(VMul(inv_signal, a0), VMul(inv_signal, omega_0))
    IN  VAdd(VAdd(real_data_term, imag_data_term), prior_term)

construct_rhs_no_rot(data, inv_noise, inv_signal, omega_0, omega_1, a0, vis) ==
    LET n == Len(a0)
        real_data_term == MatTVec(vis.real, n,
            VAdd(VMul(inv_noise, data.real), VMul(VSqrt(inv_noise), omega_1.real)))
        imag_data_term == MatTVec(vis.imag, n,
            VAdd(VMul(inv_noise, data.imag), VMul(VSqrt(inv_noise), omega_1.imag)))
        prior_term == VAdd(VMul(inv_signal, a0), VMul(VSqrt(inv_signal), omega_0))
    IN  VAdd(VAdd(real_data_term, imag_data_term), prior_term)

\* M.T @ M
Gram_unweighted(M, ncols, inv_noise) ==
    [a \in 1..ncols |-> [b \in 1..ncols |->
        RSum([r \in 1..Len(M) |-> RMul(M[r][a], M[r][b])])]]

\* M.T @ (inv_noise[:, newaxis] * M)
Gram(M, ncols, inv_noise) ==
    [a \in 1..ncols |-> [b \in 1..ncols |->
        RSum([r \in 1..Len(M) |-> RMul(M[r][a], RMul(inv_noise[r], M[r][b]))])]]

\* get_lhs_operators with vis_response.real.T in imag_op
get_lhs_operators_cross(vis, ncols, inv_noise) ==
    [real_op |-> Gram(vis.real, ncols, inv_noise),
     imag_op |-> [a \in 1..ncols |-> [b \in 1..ncols |->
        RSum([r \in 1..Len(vis.real) |->
                RMul(vis.real[r][a], RMul(inv_noise[r], vis.imag[r][b]))])]]]

get_lhs_operators(vis, ncols, inv_noise) ==
    [real_op |-> Gram(vis.real, ncols, inv_noise),
     imag_op |-> Gram(vis.imag, ncols, inv_noise)]

\* apply_lhs_no_rot taking the prior term away
apply_lhs_no_rot_minus(a_cr, r_op, i_op, inv_signal) ==
    VAdd(VAdd(MatVec(r_op, a_cr), MatVec(i_op, a_cr)),
         [k \in 1..Len(a_cr) |-> RNeg(RMul(inv_signal[k], a_cr[k]))])

apply_lhs_no_rot(a_cr, r_op, i_op, inv_signal) ==
    VAdd(VAdd(MatVec(r_op, a_cr), MatVec(i_op, a_cr)), VMul(inv_signal, a_cr))

---------------------------------------------------------------------------
(* numpy's global generator.  Its state is the last seed and the number of *)
(* values drawn since; the value at a position of a seed's stream is a     *)
(* fixed function of both.                                                 *)

\* a function without its np.random.seed call: the generator goes on from
\* the state the step before left it in
np_random_seed_skipped(s) == np_random

np_random_seed(s) == [seed |-> s, pos |-> 0]

RECURSIVE Pow3(_)
Pow3(p) == IF p = 0 THEN 1 ELSE 3 * Pow3(p - 1)

\* the standard normal value at position p of the stream of seed s: two
\* seeds below 3^n differ somewhere in the first n values of their streams
NormalAt(s, p) == (((s \div Pow3(p)) + p) % 3) - 1

\* np.random.randn(n): [vals, rng]
randn(rng, n) ==
    [vals |-> [k \in 1..n |-> R(NormalAt(rng.seed, rng.pos + k - 1))],
     rng  |-> [rng EXCEPT !.pos = @ + n]]

\* one inverse-gamma value of shape a (scale 1) at position p of the stream
\* of seed s; scipy returns nan for a shape that is not positive
InvGammaAt(a, s, p) ==
    IF ~RLess(R(0), a) THEN NaN
    ELSE RDiv(R(1 + ((s + p) % 3)), RAdd(a, R(1)))

\* invgamma.rvs(a, loc=0, scale=1) for the vector a of shapes: [vals, rng]
invgamma_rvs(rng, a) ==
    [vals |-> [k \in 1..Len(a) |-> InvGammaAt(a[k], rng.seed, rng.pos + k - 1)],
     rng  |-> [rng EXCEPT !.pos = @ + Len(a)]]

---------------------------------------------------------------------------
(* The power-spectrum sampler and the covariance updater.                  *)

Sq(x) == RMul(x, x)

\* the inner loop of get_sigma_ell adding each order once
RECURSIVE SigmaLoop_once(_, _, _, _, _)
SigmaLoop_once(alms, ell, lmx, em, acc) ==
    IF em > ell THEN acc
    ELSE LET i == get_idx_ml(em, ell, lmx)
         IN  SigmaLoop_once(alms, ell, lmx, em + 1,
                RAdd(acc, RAdd(Sq(At(alms, i.real)), Sq(At(alms, i.imag)))))

\* the inner loop of get_sigma_ell from em on
RECURSIVE SigmaLoop(_, _, _, _, _)
SigmaLoop(alms, ell, lmx, em, acc) ==
    IF em > ell THEN acc
    ELSE LET i == get_idx_ml(em, ell, lmx)
         IN  SigmaLoop(alms, ell, lmx, em + 1,
                RAdd(acc, RMul(R(2), RAdd(Sq(At(alms, i.real)), Sq(At(alms, i.imag))))))

get_sigma_ell(alms, lmx) ==
    [ell \in 1..lmx |->
        LET real_idx == get_idx_ml(0, ell, lmx).real
        IN  RDiv(SigmaLoop(alms, ell, lmx, 1, Sq(At(alms, real_idx))), R(2 * ell + 1))]

\* the slots of alms get_sigma_ell squares for degree ell, in the order of
\* its loops: the real slot of order 0, then the real and the imaginary
\* slot of each order 1..ell
RECURSIVE SigmaReads(_, _, _)
SigmaReads(ell, lmx, em) ==
    IF em > ell THEN <<>>
    ELSE LET i == get_idx_ml(em, ell, lmx)
         IN  (IF em = 0 THEN <<i.real>> ELSE <<i.real, i.imag>>)
                \o SigmaReads(ell, lmx, em + 1)

\* get_cl_samples with unique_ell = np.arange(0, lmax)
get_cl_samples_from0(alms, lmx, random_seed) ==
    LET rng0 == np_random_seed(random_seed)
        sigma_ell == get_sigma_ell(alms, lmx)
        a == [ell \in 1..lmx |-> RDiv(R(2 * (ell - 1) - 1), R(2))]
        draw == invgamma_rvs(rng0, a)
    IN  [cl_samples |-> [ell \in 1..lmx |->
            RMul(draw.vals[ell], RDiv(RMul(sigma_ell[ell], R(2 * (ell - 1) + 1)), R(2)))],
         sigma_ell |-> sigma_ell,
         rng |-> draw.rng,
         a |-> a,
         draws |-> draw.vals]

\* [cl_samples, sigma_ell, rng, a, draws]: the value returned, the
\* sigma_ell dataset, the generator after the call, the shapes handed to
\* invgamma.rvs and the values it drew
get_cl_samples(alms, lmx, random_seed) ==
    LET rng0 == np_random_seed(random_seed)
        sigma_ell == get_sigma_ell(alms, lmx)
        a == [ell \in 1..lmx |-> RDiv(R(2 * ell - 1), R(2))]
        draw == invgamma_rvs(rng0, a)
    IN  [cl_samples |-> [ell \in 1..lmx |->
            RMul(draw.vals[ell], RDiv(RMul(sigma_ell[ell], R(2 * ell + 1)), R(2)))],
         sigma_ell |-> sigma_ell,
         rng |-> draw.rng,
         a |-> a,
         draws |-> draw.vals]

Half(x) == RMul(<<1, 2>>, x)

\* the inner loop of set_signal_cov_by_cl writing the real slots only
RECURSIVE CovEmLoop_real(_, _, _, _, _)
CovEmLoop_real(cov, cl, ell, lmx, em) ==
    IF em > ell THEN cov
    ELSE LET i == get_idx_ml(em, ell, lmx)
         IN  CovEmLoop_real(Put(cov, i.real, Half(cl[ell])), cl, ell, lmx, em + 1)

\* the inner loop of set_signal_cov_by_cl from em on
RECURSIVE CovEmLoop(_, _, _, _, _)
CovEmLoop(cov, cl, ell, lmx, em) ==
    IF em > ell THEN cov
    ELSE LET i == get_idx_ml(em, ell, lmx)
         IN  CovEmLoop(Put(Put(cov, i.real, Half(cl[ell])), i.imag, Half(cl[ell])),
                       cl, ell, lmx, em + 1)

\* the outer loop of set_signal_cov_by_cl from ell on
RECURSIVE CovEllLoop(_, _, _, _)
CovEllLoop(cov, cl, lmx, ell) ==
    IF ell > lmx THEN cov
    ELSE LET real_idx == get_idx_ml(0, ell, lmx).real
         IN  CovEllLoop(CovEmLoop(Put(cov, real_idx, Half(cl[ell])), cl, ell, lmx, 1),
                        cl, lmx, ell + 1)

\* set_signal_cov_by_cl with its outer loop starting at ell = 0, where
\* cl_samples[ell-1] is the last entry
set_signal_cov_by_cl_from0(prior, cl, lmx) ==
    [signal_cov |-> CovEllLoop(Put(prior, 0, Half(cl[lmx])), cl, lmx, 1),
     prior_cov |-> prior]

\* set_signal_cov_by_cl writing into prior_cov itself, without the copy
set_signal_cov_by_cl_inplace(prior, cl, lmx) ==
    [signal_cov |-> CovEllLoop(prior, cl, lmx, 1),
     prior_cov |-> CovEllLoop(prior, cl, lmx, 1)]

\* [signal_cov, prior_cov]: the vector returned, and the caller's prior_cov
\* after the call (signal_cov starts as a copy of it)
set_signal_cov_by_cl(prior, cl, lmx) ==
    [signal_cov |-> CovEllLoop(prior, cl, lmx, 1), prior_cov |-> prior]

---------------------------------------------------------------------------
(* The solver.  scipy's cg is a deterministic function of the operator,    *)
(* the right-hand side and the starting vector: cg_calls holds the part of *)
(* that function seen so far, and a call with new inputs extends it with   *)
(* any return value.  The operator handed to it is lhs_operator, which     *)
(* reads the module-level inv_signal_cov when the solver applies it.       *)

maxiter == 30000
data_seed == 10
save_step == 100

\* lhs_operator bound to the precision of the Wiener-filter solve
lhs_operator_initial(x) == apply_lhs_no_rot(x, real_op, imag_op, inv_prior_cov)

lhs_operator(x) == apply_lhs_no_rot(x, real_op, imag_op, inv_signal_cov)

\* LinearOperator(matvec = lhs_operator, shape = (n, n)), as the solver sees
\* it: its action on the all-ones vector
LinearOperator(n) == lhs_operator(Ones(n))

SolverVectors(n) == {Zeros(n), [k \in 1..n |-> R(1 + (k % 2))]}

\* solver(A, b, tol, maxiter, x0): the values [x, info] it may return; info
\* is 0 on convergence and maxiter when the cap was reached.  A non-finite
\* entry in the system never passes the convergence test and fills x with nan
solver(A, b, x0) ==
    LET key == <<A, b, x0>>
    IN  IF ~(VFinite(A) /\ VFinite(b) /\ VFinite(x0))
        THEN {[x |-> [k \in 1..Len(b) |-> NaN], info |-> maxiter]}
        ELSE IF \E c \in cg_calls : c[1] = key
        THEN {c[2] : c \in {d \in cg_calls : d[1] = key}}
        ELSE {[x |-> v, info |-> i] : v \in SolverVectors(Len(b)), i \in {0, maxiter}}

---------------------------------------------------------------------------
(* The main block.                                                         *)

PriorCovs(lmx) ==
    {[k \in 1..Nalms(lmx) |-> <<1, 4>>],
     [k \in 1..Nalms(lmx) |-> IF k = 1 THEN R(1) ELSE <<1, 4>>]}

\* the state of the main block when the precomputations are done and the
\* Wiener-filter right-hand side is about to be built
ChainStart ==
    /\ pc = "Init"
    /\ sample_no = 0
    /\ inv_signal_cov = inv_prior_cov
    /\ initial_guess = <<>>
    /\ wf_soln = <<>>
    /\ x_soln = <<>>
    /\ cl_samples = <<>>
    /\ signal_cov = <<>>
    /\ np_random = [seed |-> data_seed, pos |-> 2 * Len(inv_noise_cov)]
    /\ hdf5 = <<>>
    /\ status = 0 - 1
    /\ log = <<>>
    /\ solves = <<>>

ChainInputs ==
    /\ jobid \in {0, MaxJob}
    /\ n_samples \in 1..MaxSamples
    /\ lmax \in 1..MaxLmaxChain
    /\ prior_cov \in PriorCovs(lmax)
    /\ inv_prior_cov = VRecip(prior_cov)
    /\ a_0 = [k \in 1..Nalms(lmax) |-> R(k % 2)]
    /\ vis_response =
         [real |-> <<[k \in 1..Nalms(lmax) |-> R(k % 2)]>>,
          imag |-> <<[k \in 1..Nalms(lmax) |-> R(IF k = 2 THEN 1 ELSE 0)]>>]
    /\ inv_noise_cov = <<R(4)>>
    /\ data_vec = [real |-> <<R(1)>>, imag |-> <<R(2)>>]
    /\ LET ops == get_lhs_operators(vis_response, Nalms(lmax), inv_noise_cov)
       IN  real_op = ops.real_op /\ imag_op = ops.imag_op

IdxIdle == q_lmax = 0 /\ q_em = 0 /\ q_ell = 0 /\ q_out = <<>>

CallIdle == fn_name = "none" /\ fn_in = <<>> /\ fn_out = <<>>

Init ==
    /\ ChainInputs
    /\ ChainStart
    /\ cg_calls = {}
    /\ run_no = 1
    /\ first_run = <<>>
    /\ IdxIdle
    /\ CallIdle

\* the loop body with the covariance update before the spectrum draw
StepAfterSwapped(step) ==
    CASE step = "SampleAlms" -> "UpdatePrior"
      [] step = "SampleSpectrum" -> "UpdatePrior"

\* the statement that follows a step of the loop body
StepAfter(step) ==
    CASE step = "SampleAlms" -> "SampleSpectrum"
      [] step = "SampleSpectrum" -> "UpdatePrior"

\* range(n_samples + 1)
LoopContinuesOneMore(k) == k + 1 < n_samples + 1

\* for sample_no in range(n_samples): whether another pass follows pass k
LoopContinues(k) == k + 1 < n_samples

\* lines 1307-1328: the Wiener-filter solve
WienerFilter ==
    /\ pc = "Init"
    /\ \E omega_0_wf \in {Zeros(Len(a_0))},
          omega_1_wf \in {[real |-> Zeros(Len(inv_noise_cov)),
                           imag |-> Zeros(Len(inv_noise_cov))]},
          x0 \in {Zeros(Len(a_0))},
          A \in {LinearOperator(Len(a_0))} :
         \E rhs_wf \in {construct_rhs_no_rot(data_vec, inv_noise_cov, inv_signal_cov,
                                             omega_0_wf, omega_1_wf, a_0, vis_response)} :
           \E out \in solver(A, rhs_wf, x0) :
             /\ wf_soln' = out.x
             /\ initial_guess' = out.x
             /\ cg_calls' = cg_calls \cup {<<(<<A, rhs_wf, x0>>), out>>}
             /\ solves' = Append(solves, [k |-> 0 - 1, A |-> A, b |-> rhs_wf,
                                          x0 |-> x0, out |-> out])
    /\ log' = Append(log, [step |-> "Init", k |-> 0 - 1])
    /\ pc' = IF 0 < n_samples THEN "SampleAlms" ELSE "Done"
    /\ UNCHANGED <<inputVars, prior_cov, sample_no, inv_signal_cov, x_soln,
                   cl_samples, signal_cov, np_random, hdf5, status, run_no,
                   first_run, idxVars, callVars>>

\* lines 1379-1380
alm_random_seed == 100 * jobid + sample_no
cl_random_seed == 100 * jobid + sample_no

\* get_alm_samples up to the solver call: [omega_0, omega_1, rhs, rng]
AlmSystem(data, inv_noise, inv_signal, a0, vis, random_seed) ==
    LET rng0 == np_random_seed(random_seed)
        d0 == randn(rng0, Len(a0))
        d1 == randn(d0.rng, Len(data.real))
        d2 == randn(d1.rng, Len(data.real))
        omega_0 == d0.vals
        omega_1 == [real |-> [k \in 1..Len(d1.vals) |-> RDiv(d1.vals[k], RSqrt(R(2)))],
                    imag |-> [k \in 1..Len(d2.vals) |-> RDiv(d2.vals[k], RSqrt(R(2)))]]
    IN  [omega_0 |-> omega_0,
         omega_1 |-> omega_1,
         rhs |-> construct_rhs_no_rot(data, inv_noise, inv_signal, omega_0, omega_1, a0, vis),
         rng |-> d2.rng]

\* the datasets get_alm_samples creates in the sample's group (the two
\* wall-clock timings are left out)
AlmDatasets(sys, random_seed, out) ==
    [x_soln |-> out.x, omega_0 |-> sys.omega_0, omega_1 |-> sys.omega_1,
     alm_random_seed |-> random_seed, rhs |-> sys.rhs, convergence_info |-> out.info]

\* line 1265
ell_0_idx == get_idx_ml(0, 0, lmax).real

\* get_alm_samples putting the Wiener-filter monopole back into the draw
ReturnedDrawPinned(out) == Put(out.x, ell_0_idx, At(wf_soln, ell_0_idx))

\* get_alm_samples rejecting a draw the solver did not converge on
ReturnedDrawStrict(out) == IF out.info = 0 THEN out.x ELSE initial_guess

\* the vector get_alm_samples returns as x_soln, given the solver's
ReturnedDraw(out) == out.x

\* the loop without line 1394
NextGuessKept(x) == initial_guess

\* line 1394: the warm start of the next solve
NextGuess(x) == x

\* lines 1367-1394: the head of the loop body and get_alm_samples
SampleAlms ==
    /\ pc = "SampleAlms"
    /\ \E opened \in {IF sample_no \div save_step > status
                      THEN sample_no \div save_step ELSE status},
          sys \in {AlmSystem(data_vec, inv_noise_cov, inv_signal_cov, a_0,
                            vis_response, alm_random_seed)},
          A \in {LinearOperator(Len(a_0))} :
           \E out \in solver(A, sys.rhs, initial_guess) :
             /\ status' = opened
             /\ x_soln' = ReturnedDraw(out)
             /\ initial_guess' = NextGuess(x_soln')
             /\ np_random' = sys.rng
             /\ cg_calls' = cg_calls \cup {<<(<<A, sys.rhs, initial_guess>>), out>>}
             /\ solves' = Append(solves, [k |-> sample_no, A |-> A, b |-> sys.rhs,
                                          x0 |-> initial_guess, out |-> out])
             /\ hdf5' = Append(hdf5,
                    [name |-> sample_no, file |-> opened * save_step,
                     alm |-> [AlmDatasets(sys, alm_random_seed, out)
                                EXCEPT !.x_soln = x_soln'],
                     cl |-> <<>>])
    /\ log' = Append(log, [step |-> "SampleAlms", k |-> sample_no])
    /\ pc' = StepAfter("SampleAlms")
    /\ UNCHANGED <<inputVars, prior_cov, sample_no, inv_signal_cov, wf_soln,
                   cl_samples, signal_cov, run_no, first_run, idxVars, callVars>>

\* lines 1396-1401: get_cl_samples
SampleSpectrum ==
    /\ pc = "SampleSpectrum"
    /\ \E c \in {get_cl_samples(x_soln, lmax, cl_random_seed)} :
           /\ cl_samples' = c.cl_samples
           /\ np_random' = c.rng
           /\ hdf5' = [hdf5 EXCEPT ![Len(hdf5)].cl =
                  <<[cl_sample |-> c.cl_samples, sigma_ell |-> c.sigma_ell,
                     cl_random_seed |-> cl_random_seed, key |-> sample_no]>>]
    /\ log' = Append(log, [step |-> "SampleSpectrum", k |-> sample_no])
    /\ pc' = StepAfter("SampleSpectrum")
    /\ UNCHANGED <<inputVars, prior_cov, sample_no, inv_signal_cov, initial_guess, wf_soln,
                   x_soln, signal_cov, status, cg_calls, solves, run_no,
                   first_run, idxVars, callVars>>

\* lines 1404-1411 and the loop's advance
UpdatePrior ==
    /\ pc = "UpdatePrior"
    /\ \E r \in {set_signal_cov_by_cl(prior_cov, cl_samples, lmax)} :
         /\ signal_cov' = r.signal_cov
         /\ prior_cov' = r.prior_cov
         /\ inv_signal_cov' = VRecip(r.signal_cov)
    /\ log' = Append(log, [step |-> "UpdatePrior", k |-> sample_no])
    /\ IF LoopContinues(sample_no)
       THEN sample_no' = sample_no + 1 /\ pc' = "SampleAlms"
       ELSE sample_no' = sample_no /\ pc' = "Done"
    /\ UNCHANGED <<inputVars, initial_guess, wf_soln, x_soln, cl_samples,
                   np_random, hdf5, status, cg_calls, solves, run_no,
                   first_run, idxVars, callVars>>

Next == WienerFilter \/ SampleAlms \/ SampleSpectrum \/ UpdatePrior

Spec == Init /\ [][Next]_vars

\* The interpreter goes on to the next statement of the main block: every
\* step of Next changes pc and a step of Next is possible exactly when pc is
\* not "Done", so weak fairness of Next is weak fairness of pc moving on.
MainBlockAdvances ==
    /\ pc # "Done"
    /\ pc' \in {"SampleAlms", "SampleSpectrum", "UpdatePrior", "Done"} \ {pc}

FairSpec == Spec /\ WF_pc(MainBlockAdvances)

\* The program is started again with the same command line and the same
\* external inputs, writing to a fresh output directory; the solver is the
\* same function as before.
Rerun ==
    /\ pc = "Done"
    /\ run_no = 1
    /\ run_no' = 2
    /\ first_run' = hdf5
    /\ pc' = "Init"
    /\ sample_no' = 0
    /\ prior_cov' = VRecip(inv_prior_cov)
    /\ inv_signal_cov' = inv_prior_cov
    /\ initial_guess' = <<>>
    /\ wf_soln' = <<>>
    /\ x_soln' = <<>>
    /\ cl_samples' = <<>>
    /\ signal_cov' = <<>>
    /\ np_random' = [seed |-> data_seed, pos |-> 2 * Len(inv_noise_cov)]
    /\ hdf5' = <<>>
    /\ status' = 0 - 1
    /\ log' = <<>>
    /\ solves' = <<>>
    /\ UNCHANGED <<inputVars, cg_calls, idxVars, callVars>>

NextRerun == Next \/ Rerun

SpecRerun == Init /\ [][NextRerun]_vars

---------------------------------------------------------------------------
(* The index functions on their own: get_idx_ml is called with every pair  *)
(* (em, ell) around the valid range of an lmax.                            *)

ChainIdle ==
    /\ jobid = 0 /\ n_samples = 0 /\ lmax = 0
    /\ prior_cov = <<>> /\ inv_prior_cov = <<>> /\ a_0 = <<>>
    /\ vis_response = <<>> /\ inv_noise_cov = <<>> /\ data_vec = <<>>
    /\ real_op = <<>> /\ imag_op = <<>>
    /\ pc = "Idle" /\ sample_no = 0
    /\ inv_signal_cov = <<>> /\ initial_guess = <<>> /\ wf_soln = <<>>
    /\ x_soln = <<>> /\ cl_samples = <<>> /\ signal_cov = <<>>
    /\ np_random = <<>> /\ hdf5 = <<>> /\ status = 0 - 1
    /\ log = <<>> /\ solves = <<>>
    /\ cg_calls = {} /\ run_no = 1 /\ first_run = <<>>

InitIdx ==
    /\ ChainIdle
    /\ q_lmax \in 0..MaxLmax
    /\ q_em = 0 /\ q_ell = 0 /\ q_out = <<>>
    /\ CallIdle

Query ==
    /\ \E em \in (0 - 1)..(q_lmax + 1), ell \in (0 - 1)..(q_lmax + 1) :
         /\ q_em' = em
         /\ q_ell' = ell
         /\ q_out' = <<get_idx_ml(em, ell, q_lmax)>>
    /\ UNCHANGED <<q_lmax, chainVars, callVars>>

SpecIdx == InitIdx /\ [][Query]_vars

---------------------------------------------------------------------------
(* The conversions on their own: each is called on vectors that are zero   *)
(* but for at most two entries, or non-zero everywhere; the non-zero entry *)
(* of slot k is k/2 or -k/2, so that no two slots hold the same value.     *)

InitCall == ChainIdle /\ IdxIdle /\ CallIdle

TagVal(k) == Norm(IF k % 2 = 0 THEN k ELSE 0 - k, 2)
TagVec(n, S) == [k \in 1..n |-> IF k \in S THEN TagVal(k) ELSE R(0)]
UpToOne(n) == {{}} \cup {{i} : i \in 1..n} \cup {1..n}
UpToTwo(n) == UpToOne(n) \cup {{i, j} : i \in 1..n, j \in 1..n}

\* healpy2alms(alms2healpy(alms, lmax))
RoundTripAlms ==
    /\ fn_name = "none"
    /\ \E l \in 0..MaxLmax : \E S \in UpToTwo(Nalms(l)) :
         \E v \in {TagVec(Nalms(l), S)} : \E h \in {alms2healpy(v, l)} :
           /\ fn_name' = "healpy2alms(alms2healpy)"
           /\ fn_in' = [lmax |-> l, alms |-> v]
           /\ fn_out' = [healpy_modes |-> h, alms |-> healpy2alms(h)]
    /\ UNCHANGED <<chainVars, idxVars>>

\* alms2healpy(healpy2alms(healpy_modes), lmax)
RoundTripHealpy ==
    /\ fn_name = "none"
    /\ \E l \in 0..MaxLmax :
         \E S1 \in UpToOne(((l + 1) * (l + 2)) \div 2),
            S2 \in UpToOne(((l + 1) * (l + 2)) \div 2) :
           \E x \in {[real |-> TagVec(((l + 1) * (l + 2)) \div 2, S1),
                       imag |-> TagVec(((l + 1) * (l + 2)) \div 2, S2)]} :
             \E a \in {healpy2alms(x)} :
               /\ fn_name' = "alms2healpy(healpy2alms)"
               /\ fn_in' = [lmax |-> l, healpy_modes |-> x]
               /\ fn_out' = [alms |-> a, healpy_modes |-> alms2healpy(a, l)]
    /\ UNCHANGED <<chainVars, idxVars>>

NextHealpy == RoundTripAlms \/ RoundTripHealpy

SpecHealpy == InitCall /\ [][NextHealpy]_vars

---------------------------------------------------------------------------
(* radiometer_eq on its own: antennas 0..n-1 with indx samples each, the   *)
(* real part of sample k being k and the imaginary parts zero but for at   *)
(* most one sample, or non-zero everywhere.                                *)

MaxAnts == 3
MaxIndx == 2

CallRadiometer ==
    /\ fn_name = "none"
    /\ \E n \in 1..MaxAnts, indx \in 1..MaxIndx, include_autos \in BOOLEAN,
          Nnights \in 1..2, delta_time \in {R(1), <<1, 2>>}, delta_freq \in {R(1), R(3)} :
         \E S \in UpToOne(n * indx) :
           \E v \in {[real |-> [k \in 1..(n * indx) |-> R(k)],
                       imag |-> [k \in 1..(n * indx) |-> IF k \in S THEN R(1) ELSE R(0)]]} :
             /\ fn_name' = "radiometer_eq"
             /\ fn_in' = [auto_visibilities |-> v, ants |-> [a \in 1..n |-> a - 1],
                          delta_time |-> delta_time, delta_freq |-> delta_freq,
                          Nnights |-> Nnights, include_autos |-> include_autos]
             /\ fn_out' = radiometer_eq(v, [a \in 1..n |-> a - 1], delta_time,
                                        delta_freq, Nnights, include_autos)
    /\ UNCHANGED <<chainVars, idxVars>>

SpecRadiometer == InitCall /\ [][CallRadiometer]_vars

---------------------------------------------------------------------------
(* Calls of get_sigma_ell and get_cl_samples on their own, for lmax up to  *)
(* MaxLmaxSpectrum.                                                        *)

MaxLmaxSpectrum == 3

CallSigmaEll ==
    /\ fn_name = "none"
    /\ \E l \in 1..MaxLmaxSpectrum : \E S \in UpToTwo(Nalms(l)) :
         \E alms \in {TagVec(Nalms(l), S)} :
           /\ fn_name' = "get_sigma_ell"
           /\ fn_in' = [alms |-> alms, lmax |-> l]
           /\ fn_out' = [sigma_ell |-> get_sigma_ell(alms, l),
                         reads |-> [ell \in 1..l |-> SigmaReads(ell, l, 0)]]
    /\ UNCHANGED <<chainVars, idxVars>>

SpectrumSeeds == 0..2

CallClSamples ==
    /\ fn_name = "none"
    /\ \E l \in 1..MaxLmaxSpectrum, random_seed \in SpectrumSeeds :
         \E S \in UpToOne(Nalms(l)) : \E alms \in {TagVec(Nalms(l), S)} :
           /\ fn_name' = "get_cl_samples"
           /\ fn_in' = [alms |-> alms, lmax |-> l, random_seed |-> random_seed]
           /\ fn_out' = get_cl_samples(alms, l, random_seed)
    /\ UNCHANGED <<chainVars, idxVars>>

NextSpectrum == CallSigmaEll \/ CallClSamples

SpecSpectrum == InitCall /\ [][NextSpectrum]_vars

---------------------------------------------------------------------------
(* The seeds of two iterations, of one chain or of two chains started with *)
(* different jobid and the same number of samples: the default number, a   *)
(* shorter one or a longer one.                                            *)

DefaultSamples == 100
MaxChainLength == 101

\* lines 1379-1380 for the chain of job number job at iteration k
random_seed_of(job, k) == 100 * job + k

ChainLengths == {1, 2, DefaultSamples, MaxChainLength}

TwoIterations ==
    /\ fn_name = "none"
    /\ \E n \in ChainLengths, job1 \in 0..MaxJob, job2 \in 0..MaxJob :
         \E k1 \in 0..(n - 1), k2 \in 0..(n - 1) :
           /\ job1 < job2 \/ (job1 = job2 /\ k1 < k2)
           /\ fn_name' = "random_seed"
           /\ fn_in' = [n_samples |-> n,
                        first |-> [jobid |-> job1, sample_no |-> k1],
                        second |-> [jobid |-> job2, sample_no |-> k2]]
           /\ fn_out' = [first |-> random_seed_of(job1, k1),
                         second |-> random_seed_of(job2, k2)]
    /\ UNCHANGED <<chainVars, idxVars>>

SpecSeeds == InitCall /\ [][TwoIterations]_vars

---------------------------------------------------------------------------
(* Calls of get_lhs_operators and apply_lhs_no_rot on small systems: a     *)
(* response of up to MaxRows baselines and MaxCols coefficients, and two   *)
(* trial vectors.                                                          *)

MaxRows == 2
MaxCols == 2

\* entry p of the test array number s
Coef(s, p) == R((((s + 2) * (p + 1) + (p \div 2)) % 5) - 2)

ResponseNumbers == 0..3
Responses(nb, n) ==
    {[real |-> [r \in 1..nb |-> [c \in 1..n |-> Coef(s, (r - 1) * n + (c - 1))]],
      imag |-> [r \in 1..nb |-> [c \in 1..n |-> Coef(s, nb * n + (r - 1) * n + (c - 1))]]]
        : s \in ResponseNumbers}

\* non-negative noise precisions and strictly positive prior precisions
NoisePrecisions(nb) == {[r \in 1..nb |-> R(4)], [r \in 1..nb |-> R((r + 1) % 2)]}
PriorPrecisions(n) == {[c \in 1..n |-> <<1, 4>>], [c \in 1..n |-> R(c)]}
TrialVectors(n) == [1..n -> {R(0 - 1), R(0), R(1)}]
ProbeVectors(n) == [1..n -> {R(0), R(1)}]

ApplyLhs ==
    /\ fn_name = "none"
    /\ \E nb \in 1..MaxRows, n \in 1..MaxCols :
         \E vis \in Responses(nb, n), inv_noise \in NoisePrecisions(nb),
            inv_signal \in PriorPrecisions(n), u \in TrialVectors(n), v \in ProbeVectors(n) :
           \E ops \in {get_lhs_operators(vis, n, inv_noise)} :
             /\ fn_name' = "apply_lhs_no_rot"
             /\ fn_in' = [vis_response |-> vis, inv_noise_cov |-> inv_noise,
                          inv_signal_cov |-> inv_signal, u |-> u, v |-> v]
             /\ fn_out' = [real_op |-> ops.real_op, imag_op |-> ops.imag_op,
                           lhs_u |-> apply_lhs_no_rot(u, ops.real_op, ops.imag_op, inv_signal),
                           lhs_v |-> apply_lhs_no_rot(v, ops.real_op, ops.imag_op, inv_signal)]
    /\ UNCHANGED <<chainVars, idxVars>>

SpecLhs == InitCall /\ [][ApplyLhs]_vars

---------------------------------------------------------------------------
(* Properties of the chain.  hdf5[i] is the group of iteration i-1 and     *)
(* solves[1] is the Wiener-filter solve.                                   *)

Complete(g) == g.cl # <<>>
Last(q) == q[Len(q)]
StepName(j) == CASE j % 3 = 0 -> "SampleAlms"
                 [] j % 3 = 1 -> "SampleSpectrum"
                 [] j % 3 = 2 -> "UpdatePrior"

\* C1: the steps completed so far are Init, then SampleAlms, SampleSpectrum,
\* UpdatePrior of iteration 0, 1, ... in this order, one at a time; the next
\* step is the one that follows the last completed step, and it starts with
\* what the step before it produced.
C1_StepOrder ==
    /\ Len(log) <= 1 + 3 * n_samples
    /\ \A i \in 1..Len(log) :
         log[i] = IF i = 1 THEN [step |-> "Init", k |-> 0 - 1]
                  ELSE [step |-> StepName(i - 2), k |-> (i - 2) \div 3]
    /\ pc = IF Len(log) = 0 THEN "Init"
            ELSE IF Len(log) = 1 + 3 * n_samples THEN "Done"
            ELSE StepName(Len(log) - 1)
    /\ pc = "Init" => wf_soln = <<>> /\ hdf5 = <<>>
    /\ pc = "SampleAlms" =>
         /\ wf_soln # <<>>
         /\ Len(hdf5) = sample_no
         /\ \A i \in 1..Len(hdf5) : Complete(hdf5[i])
         /\ sample_no >= 1 => inv_signal_cov = VRecip(signal_cov)
    /\ pc = "SampleSpectrum" =>
         /\ Len(hdf5) = sample_no + 1
         /\ ~Complete(Last(hdf5))
         /\ x_soln = Last(hdf5).alm.x_soln
    /\ pc = "UpdatePrior" =>
         /\ Len(hdf5) = sample_no + 1
         /\ Complete(Last(hdf5))
         /\ cl_samples = Last(hdf5).cl[1].cl_sample

C1_Witness == pc = "Done" /\ n_samples >= 2 /\ Len(log) = 1 + 3 * n_samples

\* the prior precision UpdatePrior of iteration k-1 produced (k >= 1), and
\* the initial one for iteration 0 and the Wiener-filter solve (k = -1)
PrecisionFor(k) ==
    IF k <= 0 THEN inv_prior_cov
    ELSE VRecip(set_signal_cov_by_cl(prior_cov, hdf5[k].cl[1].cl_sample, lmax).signal_cov)

\* C2: the solve made last (as every solve is, in the states that follow
\* it) had, as right-hand side, construct_rhs_no_rot at the prior precision
\* UpdatePrior of the iteration before produced (the initial one for
\* iteration 0 and for the Wiener filter), and as operator apply_lhs_no_rot
\* at that same precision; the solves made are the Wiener filter's and one
\* for each iteration, in order.
C2_SolvePrecision ==
    /\ \A i \in 1..Len(solves) : solves[i].k = i - 2
    /\ solves # <<>> =>
         LET s == Last(solves)
             prec == PrecisionFor(s.k)
             om0 == IF s.k < 0 THEN Zeros(Len(a_0)) ELSE hdf5[s.k + 1].alm.omega_0
             om1 == IF s.k < 0
                    THEN [real |-> Zeros(Len(inv_noise_cov)),
                          imag |-> Zeros(Len(inv_noise_cov))]
                    ELSE hdf5[s.k + 1].alm.omega_1
         IN  /\ s.b = construct_rhs_no_rot(data_vec, inv_noise_cov, prec, om0, om1,
                                           a_0, vis_response)
             /\ s.A = apply_lhs_no_rot(Ones(Len(a_0)), real_op, imag_op, prec)

C2_Witness ==
    /\ solves # <<>>
    /\ Last(solves).k >= 1
    /\ VFinite(PrecisionFor(Last(solves).k))
    /\ PrecisionFor(Last(solves).k) # inv_prior_cov

\* C3: the solve of iteration 0 starts from wf_soln and the solve of every
\* iteration k >= 1 from the x_soln of iteration k-1; the Wiener-filter solve
\* is given no starting vector.
C3_WarmStart ==
    \A i \in 1..Len(solves) :
      LET s == solves[i]
      IN  s.x0 = IF s.k < 0 THEN Zeros(Len(a_0))
                 ELSE IF s.k = 0 THEN wf_soln
                 ELSE hdf5[s.k].alm.x_soln

C3_Witness ==
    \E i \in 1..Len(solves) :
      /\ solves[i].k >= 2
      /\ solves[i].x0 # wf_soln
      /\ solves[i].x0 # hdf5[solves[i].k - 1].alm.x_soln

\* C4 as stated: the degree-0 entry of every emitted draw is the degree-0
\* entry of the Wiener-filter solution the chain started from.
C4_MonopoleConstant ==
    \A i \in 1..Len(hdf5) : At(hdf5[i].alm.x_soln, ell_0_idx) = At(wf_soln, ell_0_idx)

\* C4 amended: the degree-0 entry of every emitted draw is the degree-0 entry
\* of the vector the solver returned in that iteration.
C4_MonopoleFromSolver ==
    /\ Len(solves) = IF pc = "Init" THEN 0 ELSE Len(hdf5) + 1
    /\ \A i \in 1..Len(hdf5) :
         At(hdf5[i].alm.x_soln, ell_0_idx) = At(solves[i + 1].out.x, ell_0_idx)

C4_Witness ==
    \E i \in 1..Len(hdf5) :
      /\ VFinite(hdf5[i].alm.x_soln)
      /\ At(hdf5[i].alm.x_soln, ell_0_idx) # At(wf_soln, ell_0_idx)

\* C5: the degree-0 entry of the signal covariance and of the prior precision
\* is the one of the initial prior, whatever was sampled; prior_cov itself
\* keeps it too.
C5_MonopoleVariance ==
    /\ At(inv_signal_cov, ell_0_idx) = At(inv_prior_cov, ell_0_idx)
    /\ At(prior_cov, ell_0_idx) = RDiv(R(1), At(inv_prior_cov, ell_0_idx))
    /\ signal_cov # <<>> => At(signal_cov, ell_0_idx) = At(prior_cov, ell_0_idx)

C5_Witness ==
    /\ signal_cov # <<>>
    /\ VFinite(signal_cov)
    /\ \E k \in 1..(Len(signal_cov) - 1) : At(signal_cov, k) # At(prior_cov, k)

\* the stream of a generator just seeded with s
FreshStream(s) == [seed |-> s, pos |-> 0]

\* the fluctuation vectors drawn from the start of the stream of seed s
OmegasFrom(s) ==
    LET d0 == randn(FreshStream(s), Len(a_0))
        d1 == randn(d0.rng, Len(data_vec.real))
        d2 == randn(d1.rng, Len(data_vec.real))
    IN  [omega_0 |-> d0.vals,
         omega_1 |-> [real |-> [k \in 1..Len(d1.vals) |-> RDiv(d1.vals[k], RSqrt(R(2)))],
                      imag |-> [k \in 1..Len(d2.vals) |-> RDiv(d2.vals[k], RSqrt(R(2)))]]]

\* the power spectrum drawn from the start of the stream of seed s
ClFrom(s, sigma_ell) ==
    LET draw == invgamma_rvs(FreshStream(s), [ell \in 1..lmax |-> RDiv(R(2 * ell - 1), R(2))])
    IN  [ell \in 1..lmax |->
            RMul(draw.vals[ell], RDiv(RMul(sigma_ell[ell], R(2 * ell + 1)), R(2)))]

\* C6: what the second of two runs with the same inputs has written so far
\* is what the first run wrote for the same iterations; and in either run the
\* draws of iteration k are those at the start of the stream whose seed is
\* 100 * jobid + k, whatever was drawn before.
C6_Determinism ==
    /\ run_no = 2 =>
         /\ Len(hdf5) <= Len(first_run)
         /\ \A i \in 1..Len(hdf5) :
              /\ hdf5[i].name = first_run[i].name
              /\ hdf5[i].alm = first_run[i].alm
              /\ Complete(hdf5[i]) => hdf5[i].cl = first_run[i].cl
         /\ pc = "Done" => hdf5 = first_run
    /\ \A i \in 1..Len(hdf5) :
         LET g == hdf5[i]
             seed == 100 * jobid + (i - 1)
         IN  /\ g.alm.alm_random_seed = seed
             /\ g.alm.omega_0 = OmegasFrom(seed).omega_0
             /\ g.alm.omega_1 = OmegasFrom(seed).omega_1
             /\ Complete(g) =>
                  /\ g.cl[1].cl_random_seed = seed
                  /\ g.cl[1].cl_sample = ClFrom(seed, g.cl[1].sigma_ell)

C6_Witness ==
    /\ run_no = 2
    /\ pc = "Done"
    /\ Len(hdf5) >= 2
    /\ \E i \in 2..Len(hdf5) :
         /\ VFinite(hdf5[i].cl[1].cl_sample)
         /\ hdf5[i].alm.x_soln # hdf5[i - 1].alm.x_soln

\* C7 as stated: in every iteration the power-spectrum draw is taken from a
\* stream other than the one the fluctuation vectors of that iteration were
\* taken from.
C7_DistinctStreams ==
    \A i \in 1..Len(hdf5) :
      Complete(hdf5[i]) =>
        FreshStream(hdf5[i].cl[1].cl_random_seed) # FreshStream(hdf5[i].alm.alm_random_seed)

RecordsOfRun ==
    /\ Len(hdf5) = n_samples
    /\ Len(log) = 1 + 3 * n_samples
    /\ sample_no = n_samples - 1
    /\ \A i \in 1..Len(hdf5) :
         /\ hdf5[i].name = i - 1
         /\ Complete(hdf5[i])
         /\ hdf5[i].cl[1].key = i - 1
         /\ hdf5[i].alm.convergence_info \in {0, maxiter}
         /\ Len(hdf5[i].alm.x_soln) = Nalms(lmax)
         /\ Len(hdf5[i].cl[1].cl_sample) = lmax

RecordsKept ==
    /\ Len(hdf5') >= Len(hdf5)
    /\ \A i \in 1..Len(hdf5) :
         /\ hdf5'[i].name = hdf5[i].name
         /\ hdf5'[i].alm = hdf5[i].alm
         /\ Complete(hdf5[i]) => hdf5'[i] = hdf5[i]

\* C8: the run reaches Done; at Done it has made exactly n_samples
\* iterations and written one record for each, named 0..n_samples-1 in
\* order, each with its coefficient draw, power-spectrum draw and solver
\* diagnostic; and no step changes what an earlier step wrote.
C8_Terminates ==
    /\ <>(pc = "Done")
    /\ [](pc = "Done" => RecordsOfRun)
    /\ [][RecordsKept]_vars

C8_Witness == pc = "Done" /\ Len(hdf5) = n_samples /\ n_samples >= 2

\* C9: an iteration whose solve stopped at the iteration cap is treated as
\* any other: the vector the solver returned is the stored draw, the stored
\* diagnostic is the solver's, the power spectrum is drawn from that vector,
\* the next solve starts from it, and the run ends with all its records.
C9_NonConvergenceContinues ==
    /\ pc \in {"Init", "SampleAlms", "SampleSpectrum", "UpdatePrior", "Done"}
    /\ \A i \in 1..Len(hdf5) :
         LET g == hdf5[i]
             s == solves[i + 1]
         IN  s.out.info # 0 =>
               /\ g.alm.convergence_info = s.out.info
               /\ g.alm.x_soln = s.out.x
               /\ Complete(g) =>
                    /\ g.cl[1].sigma_ell = get_sigma_ell(s.out.x, lmax)
                    /\ g.cl[1].cl_sample = ClFrom(g.cl[1].cl_random_seed, g.cl[1].sigma_ell)
               /\ i + 2 <= Len(solves) => solves[i + 2].x0 = s.out.x
               /\ pc = "Done" => Len(hdf5) = n_samples /\ Complete(Last(hdf5))

C9_Witness ==
    /\ pc = "Done"
    /\ \E i \in 1..(Len(hdf5) - 1) :
         /\ solves[i + 1].out.info # 0
         /\ VFinite(solves[i + 1].out.x)
         /\ solves[i + 1].out.x # solves[i + 1].x0
         /\ solves[i + 2].x0 = solves[i + 1].out.x

\* entry c of the stated right-hand side: column c of Re(R) and of Im(R)
\* against the weighted data and noise fluctuation, plus the prior term
StatedRhs(c, prec, om0, om1) ==
    LET rows == 1..Len(inv_noise_cov)
        re == RSum([r \in rows |->
                 RMul(vis_response.real[r][c],
                      RAdd(RMul(inv_noise_cov[r], data_vec.real[r]),
                           RMul(RSqrt(inv_noise_cov[r]), om1.real[r])))])
        im == RSum([r \in rows |->
                 RMul(vis_response.imag[r][c],
                      RAdd(RMul(inv_noise_cov[r], data_vec.imag[r]),
                           RMul(RSqrt(inv_noise_cov[r]), om1.imag[r])))])
    IN  RAdd(RAdd(re, im), RAdd(RMul(prec[c], a_0[c]), RMul(RSqrt(prec[c]), om0[c])))

\* entry c of the Wiener-filter right-hand side, which has no fluctuation terms
WienerRhs(c, prec) ==
    LET rows == 1..Len(inv_noise_cov)
        re == RSum([r \in rows |->
                 RMul(vis_response.real[r][c], RMul(inv_noise_cov[r], data_vec.real[r]))])
        im == RSum([r \in rows |->
                 RMul(vis_response.imag[r][c], RMul(inv_noise_cov[r], data_vec.imag[r]))])
    IN  RAdd(RAdd(re, im), RMul(prec[c], a_0[c]))

AllZero(om0, om1) ==
    /\ om0 = Zeros(Len(om0))
    /\ om1.real = Zeros(Len(om1.real))
    /\ om1.imag = Zeros(Len(om1.imag))

\* C17: the right-hand side of the solve made last (as of every solve, in
\* the states that follow it) is, entry by entry, Re(R)^T (N^-1 d_real +
\* sqrt(N^-1) omega_1_real) + Im(R)^T (N^-1 d_imag + sqrt(N^-1) omega_1_imag)
\* + S^-1 a_0 + sqrt(S^-1) omega_0; for the Wiener-filter solve that is the
\* right-hand side without fluctuation terms, and for the solve of an
\* iteration omega_0 and omega_1 are the ones get_alm_samples drew from the
\* generator it had just seeded, which are not all zero, and the right-hand
\* side is the one saved in the iteration's group.
C17_RhsForm ==
    /\ \A i \in 1..Len(hdf5) : ~AllZero(hdf5[i].alm.omega_0, hdf5[i].alm.omega_1)
    /\ solves # <<>> =>
         LET s == Last(solves)
             prec == PrecisionFor(s.k)
         IN  IF s.k < 0
             THEN s.b = [c \in 1..Len(a_0) |-> WienerRhs(c, prec)]
             ELSE LET g == hdf5[s.k + 1].alm
                      om == OmegasFrom(g.alm_random_seed)
                  IN  /\ g.omega_0 = om.omega_0
                      /\ g.omega_1 = om.omega_1
                      /\ g.rhs = s.b
                      /\ s.b = [c \in 1..Len(a_0) |->
                                   StatedRhs(c, prec, g.omega_0, g.omega_1)]

\* two iterations' solves made, the last one at a finite precision that
\* UpdatePrior changed, with both fluctuation vectors non-zero
C17_Witness ==
    /\ Len(solves) >= 3
    /\ solves[1].k = 0 - 1
    /\ VFinite(PrecisionFor(Last(solves).k))
    /\ PrecisionFor(Last(solves).k) # inv_prior_cov
    /\ LET g == hdf5[Last(solves).k + 1].alm
       IN  /\ g.omega_0 # Zeros(Len(a_0))
           /\ g.omega_1.real # Zeros(Len(inv_noise_cov))
           /\ VFinite(g.rhs)

HasZero(v) == \E k \in 1..Len(v) : v[k] = R(0)

\* C16 as stated (for the signal variance): a signal variance with a zero
\* entry is never turned into a precision, and no solve is made with the
\* precision of such a variance.
C16_ZeroVarianceFatal ==
    /\ (signal_cov # <<>> /\ HasZero(signal_cov)) => inv_signal_cov # VRecip(signal_cov)
    /\ \A i \in 1..Len(solves) :
         solves[i].k >= 1 =>
           ~HasZero(set_signal_cov_by_cl(prior_cov, hdf5[solves[i].k].cl[1].cl_sample,
                                         lmax).signal_cov)

---------------------------------------------------------------------------
(* Properties of the index functions.                                      *)

Modes(lmx) == {m \in (0..lmx) \X (0..lmx) : m[1] <= m[2]}
NReal(lmx) == ((lmx + 1) * (lmx + 2)) \div 2
NImag(lmx) == ((lmx + 1) * lmx) \div 2

\* C10: for the lmax queried, get_idx_ml returns for every 0 <= em <= ell <=
\* lmax a real slot in 0..NReal-1 and, when em >= 1, an imaginary slot in the
\* NImag slots that follow, and no imaginary slot when em = 0; different
\* parts get different slots and every slot 0..(lmax+1)^2-1 is taken; the
\* lists of get_em_ell_idx at a returned slot hold em and ell.
C10_IndexBijection ==
    LET lists == get_em_ell_idx(q_lmax)
        parts == {<<m, "real">> : m \in Modes(q_lmax)}
                   \cup {<<m, "imag">> : m \in {n \in Modes(q_lmax) : n[1] >= 1}}
        out == [m \in Modes(q_lmax) |-> get_idx_ml(m[1], m[2], q_lmax)]
        slot == [p \in parts |-> IF p[2] = "real" THEN out[p[1]].real ELSE out[p[1]].imag]
    IN  /\ NReal(q_lmax) + NImag(q_lmax) = (q_lmax + 1) * (q_lmax + 1)
        /\ Len(lists.ems) = (q_lmax + 1) * (q_lmax + 1)
        /\ \A m \in Modes(q_lmax) :
             /\ out[m].err = "none"
             /\ m[1] = 0 => out[m].imag = NoIndex
        /\ \A p \in parts :
             /\ p[2] = "real" => slot[p] \in 0..(NReal(q_lmax) - 1)
             /\ p[2] = "imag" =>
                  slot[p] \in NReal(q_lmax)..(NReal(q_lmax) + NImag(q_lmax) - 1)
             /\ At(lists.ems, slot[p]) = p[1][1]
             /\ At(lists.ells, slot[p]) = p[1][2]
        /\ \A p \in parts : \A r \in parts : slot[p] = slot[r] => p = r
        /\ {slot[p] : p \in parts} = 0..((q_lmax + 1) * (q_lmax + 1) - 1)
        /\ (q_out # <<>> /\ 0 <= q_em /\ q_em <= q_ell /\ q_ell <= q_lmax) =>
             /\ q_out[1].err = "none"
             /\ q_out[1].real = slot[<<(<<q_em, q_ell>>), "real">>]
             /\ q_em >= 1 => q_out[1].imag = slot[<<(<<q_em, q_ell>>), "imag">>]
             /\ q_em = 0 => q_out[1].imag = NoIndex

C10_Witness ==
    /\ q_lmax >= 2
    /\ q_out # <<>>
    /\ 1 <= q_em /\ q_em < q_ell /\ q_ell <= q_lmax
    /\ q_out[1].imag >= NReal(q_lmax)

ValidMode(em, ell, lmx) == 0 <= em /\ em <= ell /\ ell <= lmx

\* C11: a call of get_idx_ml with (em, ell) outside 0 <= em <= ell <= lmax
\* raises and returns no index: the assertion "m cannot be greater than the
\* ell value" when em > ell, and otherwise (em < 0 or ell > lmax) a TypeError,
\* as no slot matches and the empty match is used as a list index.
C11_InvalidModeFails ==
    (q_out # <<>> /\ ~ValidMode(q_em, q_ell, q_lmax)) =>
        /\ q_out[1].err # "none"
        /\ q_out[1].real = NoIndex /\ q_out[1].imag = NoIndex
        /\ q_out[1].err = IF q_em > q_ell THEN "AssertionError" ELSE "TypeError"

C11_Witness ==
    /\ q_out # <<>>
    /\ q_em <= q_ell
    /\ q_em < 0 \/ q_ell > q_lmax
    /\ q_out[1].err = "TypeError"

---------------------------------------------------------------------------
(* Properties of the conversions.                                          *)

\* C12: converting a realified vector of length (lmax+1)^2 to the healpy
\* layout and back gives the vector again, and the conversion raises
\* nothing; the array in between has (lmax+1)(lmax+2)/2 entries.
C12_AlmsRoundTrip ==
    fn_name = "healpy2alms(alms2healpy)" =>
        /\ fn_out.healpy_modes.err = "none"
        /\ Len(fn_out.healpy_modes.real) = NReal(fn_in.lmax)
        /\ fn_out.alms = fn_in.alms

C12_Witness ==
    /\ fn_name = "healpy2alms(alms2healpy)"
    /\ fn_in.lmax >= 2
    /\ \E k \in (NReal(fn_in.lmax) + 1)..Len(fn_in.alms) : fn_in.alms[k] # R(0)
    /\ fn_in.alms[1] # R(0)
    /\ fn_out.alms = fn_in.alms

SameArray(x, y) == x.real = y.real /\ x.imag = y.imag

\* C13 as stated: converting any complex array of length
\* (lmax+1)(lmax+2)/2 to the realified vector and back gives the array again.
C13_HealpyRoundTrip ==
    fn_name = "alms2healpy(healpy2alms)" =>
        /\ fn_out.healpy_modes.err = "none"
        /\ SameArray(fn_out.healpy_modes, fn_in.healpy_modes)

RealAtEm0(x, lmx) == \A k \in 1..(lmx + 1) : x.imag[k] = R(0)

\* C13 amended: it gives the array again when the em = 0 entries of the
\* array (its first lmax+1) have zero imaginary part; in any case the real
\* parts come back, and the imaginary parts of the other entries.
C13_HealpyRoundTripRealEm0 ==
    fn_name = "alms2healpy(healpy2alms)" =>
        /\ fn_out.healpy_modes.err = "none"
        /\ Len(fn_out.alms) = Nalms(fn_in.lmax)
        /\ fn_out.healpy_modes.real = fn_in.healpy_modes.real
        /\ \A k \in (fn_in.lmax + 2)..Len(fn_in.healpy_modes.imag) :
             fn_out.healpy_modes.imag[k] = fn_in.healpy_modes.imag[k]
        /\ RealAtEm0(fn_in.healpy_modes, fn_in.lmax) =>
             SameArray(fn_out.healpy_modes, fn_in.healpy_modes)

C13_Witness ==
    /\ fn_name = "alms2healpy(healpy2alms)"
    /\ fn_in.lmax >= 1
    /\ RealAtEm0(fn_in.healpy_modes, fn_in.lmax)
    /\ \E k \in 1..Len(fn_in.healpy_modes.imag) : fn_in.healpy_modes.imag[k] # R(0)
    /\ SameArray(fn_out.healpy_modes, fn_in.healpy_modes)

---------------------------------------------------------------------------
(* Properties of radiometer_eq.  The pairs that contribute are numbered in *)
(* i-major order; V(k) is sample k (0-based) of the input.                 *)

ExpectedPairs(n, autos) ==
    SelectSeq([k \in 1..(n * n) |-> <<(k - 1) \div n, (k - 1) % n>>],
              LAMBDA p : IF autos THEN p[1] <= p[2] ELSE p[1] < p[2])

\* real and imaginary part of V_ii * V_jj / (Nnights * delta_time * delta_freq)
\* at sample t (0-based) of the pair <<i, j>>
VarRe(in, pr, t, indx) ==
    LET a == At(in.auto_visibilities.real, pr[1] * indx + t)
        b == At(in.auto_visibilities.imag, pr[1] * indx + t)
        c == At(in.auto_visibilities.real, pr[2] * indx + t)
        d == At(in.auto_visibilities.imag, pr[2] * indx + t)
    IN  RDiv(RAdd(RMul(a, c), RNeg(RMul(b, d))),
             RMul(RMul(R(in.Nnights), in.delta_time), in.delta_freq))
VarIm(in, pr, t, indx) ==
    LET a == At(in.auto_visibilities.real, pr[1] * indx + t)
        b == At(in.auto_visibilities.imag, pr[1] * indx + t)
        c == At(in.auto_visibilities.real, pr[2] * indx + t)
        d == At(in.auto_visibilities.imag, pr[2] * indx + t)
    IN  RDiv(RAdd(RMul(a, d), RMul(b, c)),
             RMul(RMul(R(in.Nnights), in.delta_time), in.delta_freq))

\* C14: what radiometer_eq returns for antennas 0..n-1 is, pair after pair
\* in i-major order over i < j (i <= j with include_autos), the indx values
\* V_ii * V_jj / (Nnights * delta_time * delta_freq) of the pair, and nothing
\* else: n(n-1)/2 * indx entries, n(n+1)/2 * indx with include_autos.
C14_RadiometerBlocks ==
    (fn_name = "radiometer_eq" /\ fn_out.err = "none") =>
        LET n == Len(fn_in.ants)
            indx == Len(fn_in.auto_visibilities.real) \div n
            prs == ExpectedPairs(n, fn_in.include_autos)
        IN  /\ Len(prs) = IF fn_in.include_autos THEN (n * (n + 1)) \div 2
                          ELSE (n * (n - 1)) \div 2
            /\ Len(fn_out.sigma) = Len(prs) * indx
            /\ \A q \in 1..Len(prs) : \A t \in 0..(indx - 1) :
                 At(fn_out.sigma, (q - 1) * indx + t) = VarRe(fn_in, prs[q], t, indx)

C14_Witness ==
    /\ fn_name = "radiometer_eq"
    /\ fn_out.err = "none"
    /\ Len(fn_in.ants) >= 3
    /\ Len(fn_in.auto_visibilities.real) >= 2 * Len(fn_in.ants)
    /\ ~fn_in.include_autos
    /\ fn_in.Nnights = 2
    /\ Len(fn_out.sigma) >= 6

\* C15: radiometer_eq raises its assertion, and returns nothing, exactly
\* when one of the variances it computed has a non-zero imaginary part;
\* otherwise it returns their real parts, one entry for each of them.
C15_RadiometerImagCheck ==
    fn_name = "radiometer_eq" =>
        LET n == Len(fn_in.ants)
            indx == Len(fn_in.auto_visibilities.real) \div n
            prs == ExpectedPairs(n, fn_in.include_autos)
            bad == \E q \in 1..Len(prs) : \E t \in 0..(indx - 1) :
                     VarIm(fn_in, prs[q], t, indx) # R(0)
        IN  IF bad
            THEN fn_out.err = "AssertionError" /\ fn_out.sigma = <<>>
            ELSE /\ fn_out.err = "none"
                 /\ fn_out.sigma =
                      [p \in 1..(Len(prs) * indx) |->
                          VarRe(fn_in, prs[((p - 1) \div indx) + 1], (p - 1) % indx, indx)]

C15_Witness ==
    /\ fn_name = "radiometer_eq"
    /\ fn_out.err = "AssertionError"
    /\ Len(fn_in.ants) >= 2
    /\ \E k \in 1..Len(fn_in.auto_visibilities.imag) :
         fn_in.auto_visibilities.imag[k] = R(0)

---------------------------------------------------------------------------
(* Properties of the left-hand-side operator.                              *)

\* M.T @ (w * (M @ x)): the weighted Gram matrix of M applied to x without
\* forming the matrix
GramApplied(M, w, x) ==
    LET Mx == [r \in 1..Len(M) |-> RSum([b \in 1..Len(x) |-> RMul(M[r][b], x[b])])]
    IN  [a \in 1..Len(x) |-> RSum([r \in 1..Len(M) |-> RMul(M[r][a], RMul(w[r], Mx[r]))])]

StatedLhs(in, x) ==
    LET gre == GramApplied(in.vis_response.real, in.inv_noise_cov, x)
        gim == GramApplied(in.vis_response.imag, in.inv_noise_cov, x)
    IN  [a \in 1..Len(x) |->
            RAdd(RAdd(gre[a], gim[a]), RMul(in.inv_signal_cov[a], x[a]))]

\* C18: apply_lhs_no_rot with the blocks of get_lhs_operators returns, for
\* each trial vector x, G_re x + G_im x + S^-1 * x with G_re = Re(R)^T
\* diag(N^-1) Re(R) and G_im = Im(R)^T diag(N^-1) Im(R), the prior precision
\* multiplying x entry by entry.
C18_LhsForm ==
    fn_name = "apply_lhs_no_rot" =>
        /\ fn_out.lhs_u = StatedLhs(fn_in, fn_in.u)
        /\ fn_out.lhs_v = StatedLhs(fn_in, fn_in.v)

\* two baselines and two coefficients, both Gram matrices with a non-zero
\* off-diagonal entry, unequal noise and prior precisions, and a trial
\* vector with two non-zero entries
C18_Witness ==
    /\ fn_name = "apply_lhs_no_rot"
    /\ Len(fn_in.inv_noise_cov) = 2 /\ Len(fn_in.u) = 2
    /\ fn_out.real_op[1][2] # R(0) /\ fn_out.imag_op[1][2] # R(0)
    /\ fn_in.inv_noise_cov[1] # fn_in.inv_noise_cov[2]
    /\ fn_in.inv_signal_cov[1] # fn_in.inv_signal_cov[2]
    /\ fn_in.u[1] # R(0) /\ fn_in.u[2] # R(0)
    /\ fn_out.lhs_u # Zeros(2)

\* C19: for the blocks get_lhs_operators builds from a response and a noise
\* precision, and every prior precision, the operator is symmetric: for the
\* two trial vectors u and v, u . lhs(v) equals v . lhs(u).
C19_LhsSymmetric ==
    fn_name = "apply_lhs_no_rot" =>
        Dot(fn_in.u, fn_out.lhs_v) = Dot(fn_in.v, fn_out.lhs_u)

\* two different non-zero trial vectors that are not multiples of each
\* other, a non-zero product, and Gram matrices with off-diagonal entries
C19_Witness ==
    /\ fn_name = "apply_lhs_no_rot"
    /\ Len(fn_in.u) = 2
    /\ fn_in.u[1] # R(0) /\ fn_in.u[2] = R(0) /\ fn_in.v[2] # R(0)
    /\ fn_out.real_op[1][2] # R(0)
    /\ RAdd(fn_out.real_op[1][2], fn_out.imag_op[1][2]) # R(0)
    /\ Dot(fn_in.u, fn_out.lhs_v) # R(0)
    /\ fn_out.lhs_u # fn_out.lhs_v

NonNegative(w) == \A k \in 1..Len(w) : w[k] = R(0) \/ RLess(R(0), w[k])
Positive(w) == \A k \in 1..Len(w) : RLess(R(0), w[k])

\* C20: for the blocks get_lhs_operators builds from a response and a noise
\* precision without negative entries, and a prior precision whose entries
\* are all above zero, x . lhs(x) is above zero for each non-zero trial
\* vector x.
C20_LhsPositiveDefinite ==
    (/\ fn_name = "apply_lhs_no_rot"
     /\ NonNegative(fn_in.inv_noise_cov)
     /\ Positive(fn_in.inv_signal_cov)) =>
        /\ fn_in.u # Zeros(Len(fn_in.u)) => RLess(R(0), Dot(fn_in.u, fn_out.lhs_u))
        /\ fn_in.v # Zeros(Len(fn_in.v)) => RLess(R(0), Dot(fn_in.v, fn_out.lhs_v))

\* a non-zero trial vector the two Gram matrices send to zero, under a
\* noise precision with a zero entry: only the prior term is left
C20_Witness ==
    /\ fn_name = "apply_lhs_no_rot"
    /\ NonNegative(fn_in.inv_noise_cov) /\ ~Positive(fn_in.inv_noise_cov)
    /\ Positive(fn_in.inv_signal_cov)
    /\ Len(fn_in.u) = 2
    /\ fn_in.u[1] = R(0 - 1) /\ fn_in.u[2] # R(0)
    /\ MatVec(fn_out.real_op, fn_in.u) = Zeros(2)
    /\ MatVec(fn_out.imag_op, fn_in.u) = Zeros(2)
    /\ RLess(R(0), Dot(fn_in.u, fn_out.lhs_u))

---------------------------------------------------------------------------
(* Properties of the power-spectrum sampler and the covariance updater.    *)

\* the order-major position of the real part of mode (em, ell), and the
\* position of its imaginary part behind the block of real parts, the
\* imaginary parts of order 0 being left out
RealSlot(em, ell, lmx) == ((em * (2 * lmx + 1 - em)) \div 2) + ell
ImagSlot(em, ell, lmx) ==
    RealSlot(em, ell, lmx) + (((lmx + 1) * (lmx + 2)) \div 2) - (lmx + 1)

SlotsOfDegree(ell, lmx) ==
    {RealSlot(em, ell, lmx) : em \in 0..ell} \cup {ImagSlot(em, ell, lmx) : em \in 1..ell}

StatedSigma(alms, ell, lmx) ==
    RDiv(RAdd(Sq(At(alms, RealSlot(0, ell, lmx))),
              RMul(R(2), RSum([em \in 1..ell |->
                                 RAdd(Sq(At(alms, RealSlot(em, ell, lmx))),
                                      Sq(At(alms, ImagSlot(em, ell, lmx))))]))),
         R(2 * ell + 1))

\* C21: get_sigma_ell returns lmax entries, entry ell-1 being (a(0,ell)^2 +
\* 2 * sum over em = 1..ell of (a_real(em,ell)^2 + a_imag(em,ell)^2)) /
\* (2 ell + 1); for degree ell it squares each of the 2 ell + 1 slots of
\* that degree once and no other slot, and slot 0, the monopole's, for no
\* degree.
C21_SigmaEll ==
    fn_name = "get_sigma_ell" =>
        /\ Len(fn_out.sigma_ell) = fn_in.lmax
        /\ \A ell \in 1..fn_in.lmax :
             /\ fn_out.sigma_ell[ell] = StatedSigma(fn_in.alms, ell, fn_in.lmax)
             /\ Len(fn_out.reads[ell]) = 2 * ell + 1
             /\ {fn_out.reads[ell][k] : k \in 1..(2 * ell + 1)}
                  = SlotsOfDegree(ell, fn_in.lmax)
             /\ \A k \in 1..(2 * ell + 1) : fn_out.reads[ell][k] # 0

\* lmax = 3 and a vector with two non-zero entries, one of them in an
\* imaginary slot of degree 2 or more: that degree's entry is not zero
C21_Witness ==
    /\ fn_name = "get_sigma_ell"
    /\ fn_in.lmax >= 3
    /\ \E ell \in 2..fn_in.lmax : \E em \in 1..ell :
         /\ At(fn_in.alms, ImagSlot(em, ell, fn_in.lmax)) # R(0)
         /\ fn_out.sigma_ell[ell] # R(0)
    /\ At(fn_in.alms, 0) # R(0)
    /\ fn_out.sigma_ell[1] = R(0)

\* C22: get_cl_samples returns lmax entries, one for each degree 1..lmax:
\* entry ell-1 is g_ell * sigma_ell * (2 ell + 1) / 2, where g_ell is the one
\* value drawn for that degree from the generator just seeded, with shape
\* (2 ell - 1)/2; every shape handed to the draw is above zero.
C22_ClSamples ==
    fn_name = "get_cl_samples" =>
        /\ Len(fn_out.cl_samples) = fn_in.lmax
        /\ Len(fn_out.a) = fn_in.lmax
        /\ fn_out.rng = [seed |-> fn_in.random_seed, pos |-> fn_in.lmax]
        /\ \A ell \in 1..fn_in.lmax :
             /\ fn_out.a[ell] = Norm(2 * ell - 1, 2)
             /\ RLess(R(0), fn_out.a[ell])
             /\ fn_out.draws[ell] = InvGammaAt(fn_out.a[ell], fn_in.random_seed, ell - 1)
             /\ IsFinite(fn_out.draws[ell]) /\ RLess(R(0), fn_out.draws[ell])
             /\ fn_out.cl_samples[ell] =
                  RDiv(RMul(RMul(fn_out.draws[ell],
                                 StatedSigma(fn_in.alms, ell, fn_in.lmax)),
                            R(2 * ell + 1)), R(2))

\* three degrees sampled from a vector without zero entries, with a seed
\* other than 0: three different shapes and three samples above zero
C22_Witness ==
    /\ fn_name = "get_cl_samples"
    /\ fn_in.lmax = 3
    /\ fn_in.random_seed # 0
    /\ \A ell \in 1..3 : RLess(R(0), fn_out.cl_samples[ell])
    /\ fn_out.a[1] # fn_out.a[2] /\ fn_out.a[2] # fn_out.a[3]

C24_ChainConstants ==
    /\ [](/\ real_op = Gram(vis_response.real, Len(a_0), inv_noise_cov)
          /\ imag_op = Gram(vis_response.imag, Len(a_0), inv_noise_cov))
    /\ [][/\ real_op' = real_op /\ imag_op' = imag_op
          /\ vis_response' = vis_response /\ inv_noise_cov' = inv_noise_cov
          /\ data_vec' = data_vec /\ a_0' = a_0
          /\ prior_cov' = prior_cov
          /\ inv_signal_cov' # inv_signal_cov => pc = "UpdatePrior"
          /\ initial_guess' # initial_guess => pc \in {"Init", "SampleAlms"}]_vars

\* a chain that is done after two iterations or more, whose prior
\* precision and starting vector have both changed on the way
C24_Witness ==
    /\ pc = "Done"
    /\ sample_no >= 1
    /\ inv_signal_cov # inv_prior_cov
    /\ initial_guess # wf_soln
    /\ signal_cov # prior_cov

\* C25 as stated: when a solve is about to start (the Wiener filter's, or
\* the SampleAlms of an iteration) every entry of inv_signal_cov is finite
\* and above zero; every entry of prior_cov is at least 1/4; and every
\* variance UpdatePrior wrote is above zero.
C25_PrecisionPositive ==
    /\ \A k \in 1..Len(prior_cov) : ~RLess(prior_cov[k], <<1, 4>>)
    /\ signal_cov # <<>> =>
         \A ell \in 1..lmax : \A slot \in SlotsOfDegree(ell, lmax) :
            RLess(R(0), At(signal_cov, slot))
    /\ pc \in {"Init", "SampleAlms"} =>
         \A k \in 1..Len(inv_signal_cov) :
            IsFinite(inv_signal_cov[k]) /\ RLess(R(0), inv_signal_cov[k])

---------------------------------------------------------------------------
(* The index functions against the conversion.                             *)

\* HEALPix coefficients for lmax = lmx, coefficient number i (from 0) being
\* (i + 1) - (i + 1)j: no two parts are equal
HealpyNumbered(lmx) ==
    [real |-> [i \in 1..(((lmx + 1) * (lmx + 2)) \div 2) |-> R(i)],
     imag |-> [i \in 1..(((lmx + 1) * (lmx + 2)) \div 2) |-> R(0 - i)]]

\* C26: for a mode 0 <= em <= ell <= lmax, the real slot get_idx_ml returns
\* is em*(2*lmax+1-em)/2 + ell, the number of the mode's HEALPix
\* coefficient, and healpy2alms puts the real part of that coefficient
\* there; for em >= 1 the imaginary slot is the real slot plus
\* (lmax+1)(lmax+2)/2 - (lmax+1), and healpy2alms puts the coefficient's
\* imaginary part there.
C26_IndexMatchesPacking ==
    (q_out # <<>> /\ ValidMode(q_em, q_ell, q_lmax)) =>
        LET number == (q_em * (2 * q_lmax + 1 - q_em)) \div 2 + q_ell
            h == HealpyNumbered(q_lmax)
            alms == healpy2alms(h)
        IN  /\ q_out[1].err = "none"
            /\ q_out[1].real = number
            /\ At(alms, q_out[1].real) = h.real[number + 1]
            /\ q_em >= 1 =>
                 /\ q_out[1].imag
                      = number + (((q_lmax + 1) * (q_lmax + 2)) \div 2) - (q_lmax + 1)
                 /\ At(alms, q_out[1].imag) = h.imag[number + 1]

\* a mode of order 2 or more and of a degree below lmax
C26_Witness ==
    /\ q_out # <<>>
    /\ q_em >= 2 /\ q_ell > q_em /\ q_ell < q_lmax
    /\ q_out[1].err = "none"
    /\ q_out[1].imag > q_out[1].real /\ q_out[1].real > q_ell

---------------------------------------------------------------------------
(* Seeds across chains.                                                    *)

\* C27 as stated: two iterations that differ in jobid or in sample_no
\* (jobid >= 0, 0 <= sample_no < n_samples, any n_samples) are given
\* different seeds.
C27_SeedsDistinct ==
    (fn_name = "random_seed" /\ fn_in.first # fn_in.second) =>
        fn_out.first # fn_out.second

===========================================================================
